---- MODULE Spec2Model ----
(***************************************************************************)
(* The gh-switcher component of Ghost Desktop                              *)
(* (src/app/components/gh-switcher.js): the blog quick switcher with its   *)
(* three binders (_setupContextMenu, _setupQuickSwitch, _setupMenuItem),   *)
(* its asynchronous store operations (changeBlogColor, removeBlog,         *)
(* editBlog) and its actions (switchToBlog, showAddBlog, showPreferences,  *)
(* toggle, reorderItems).                                                  *)
(*                                                                         *)
(* The store, the preferences service, the window-menu service, the DOM    *)
(* and Electron's native menu are the component's environment.  They are   *)
(* modelled by the state the component's calls read and write:             *)
(*   - the store keeps one in-memory record per blog (identity map) and a  *)
(*     persisted copy that a successful save overwrites;                   *)
(*   - the native popup menu is modal: no contextmenu event is delivered   *)
(*     while a popup is open.                                              *)
(***************************************************************************)
EXTENDS Integers, Sequences, FiniteSets, Bags, TLC

VARIABLES
    blogs,            \* the `blogs` collection handed to the component (ids, store order)
    index,            \* blog id -> its `index` field
    isMinimized,      \* preferences.isQuickSwitcherMinimized
    handlers,         \* contextmenu handlers attached to the root, by closure
    selectedBlog,     \* closure -> its `selectedBlog` variable, for the closures still in use
    popup,            \* the native popup that is open, or NoPopup
    quickSwitchItems, \* list last passed to windowMenu.addQuickSwitchItemsToMenu
    injected,         \* names of the items given to windowMenu.injectMenuItem
    record,           \* blog id -> in-memory store record
    persisted,        \* blog id -> what the last successful save wrote
    ops,              \* the bag of store operations in flight
    sent              \* sendAction notifications of the last step

vars == <<blogs, index, isMinimized, handlers, selectedBlog, popup,
          quickSwitchItems, injected, record, persisted, ops, sent>>

(***************************************************************************)
(* Bounds                                                                  *)
(***************************************************************************)
NumBlogs == 2        \* blogs in the collection under Spec
NumSortBlogs == 3    \* blogs in the collection under SpecReorder
NumStoreBlogs == 1   \* blogs in the collection under SpecStore
MaxMenuBlogs == 9    \* largest collection under SpecMenu
MaxOps == 2          \* store operations in flight at once under SpecStore
MaxMenuOps == 1      \* store operations the context menu starts under Spec
NumColors == 1       \* icon colours randomIconColor draws from
MaxDepth == 2        \* DOM elements on a click's chain besides the root

Null == 0            \* null / undefined / "": every falsy id
\* popup.menu: the closure whose menu is open; popup.button: the data-blog of the
\* switch button whose right-click opened it; popup.count: the popups that one
\* contextmenu event opened.
NoPopup == [menu |-> 0, button |-> Null, count |-> 0]
Colors == 1..NumColors

QuickSwitchLimit == 8    \* slice(0, 8)

Min(a, b) == IF a < b THEN a ELSE b

(***************************************************************************)
(* Blogs.  A blog is identified by its Ember Data id; `name` is a field    *)
(* of the record the component only reads.  Names are not unique.          *)
(***************************************************************************)
BlogIds(n) == 1..n

BlogName(b) == IF b % 3 = 0 THEN "Travel" ELSE IF b % 3 = 1 THEN "Food" ELSE "Code"

Range(s) == {s[i] : i \in 1..Len(s)}

(***************************************************************************)
(* sortedBlogs: computed.sort('blogs', 'sortDefinition') with              *)
(* sortDefinition ['index']: ascending by index, equal indices keep the    *)
(* order of the collection.                                                *)
(***************************************************************************)
SortInsert(s, b, idx) ==
    LET k == Cardinality({i \in 1..Len(s) : idx[s[i]] <= idx[b]})
    IN  SubSeq(s, 1, k) \o <<b>> \o SubSeq(s, k + 1, Len(s))

RECURSIVE SortBy(_, _)
SortBy(c, idx) ==
    IF c = <<>> THEN <<>>
    ELSE SortInsert(SortBy(SubSeq(c, 1, Len(c) - 1), idx), c[Len(c)], idx)

SortedBlogsOf(c, idx) == SortBy(c, idx)

sortedBlogs == SortedBlogsOf(blogs, index)

(***************************************************************************)
(* _setupQuickSwitch: the list handed to addQuickSwitchItemsToMenu.  A     *)
(* click closure is modelled by the blog it captured.                      *)
(***************************************************************************)
Slice(s, from, to) == SubSeq(s, from + 1, Min(to, Len(s)))

Separator == [type |-> "separator"]

Accelerator(i) == <<"CmdOrCtrl+", i + 1>>

BlogMenuItem(blog, i) ==
    [accelerator |-> Accelerator(i), click |-> blog, label |-> BlogName(blog)]

\* BlogMenuItems taking nine blogs, as the comment above the slice has it
BlogMenuItemsNine(sorted) ==
    LET first == Slice(sorted, 0, QuickSwitchLimit + 1)
    IN  <<Separator>> \o [k \in 1..Len(first) |-> BlogMenuItem(first[k], k - 1)]

BlogMenuItems(sorted) ==
    LET first == Slice(sorted, 0, QuickSwitchLimit)
    IN  <<Separator>> \o [k \in 1..Len(first) |-> BlogMenuItem(first[k], k - 1)]

(***************************************************************************)
(* The DOM as the contextmenu handler sees it: the chain of nodes from     *)
(* e.target along parentNode.  The chain passes through the component's    *)
(* root element, continues through the elements the component is mounted   *)
(* in and ends with the document, whose parentNode is null and which has   *)
(* no classList.                                                           *)
(***************************************************************************)
Plain == [kind |-> "element", switchBtn |-> FALSE, blog |-> Null]

Button(b) == [kind |-> "element", switchBtn |-> TRUE, blog |-> b]

Document == [kind |-> "document", switchBtn |-> FALSE, blog |-> Null]

Plains(n) == [i \in 1..n |-> Plain]

\* Chains of at most `max` elements of which at most one is a switch button;
\* a button's data-blog is one of `ids` or is missing (Null).
Chains(max, ids) ==
    {Plains(n) : n \in 0..max}
    \cup {Plains(d1) \o <<Button(b)>> \o Plains(d2) :
            d1 \in 0..max, d2 \in 0..max, b \in ids \cup {Null}}

BoundedChains(max, ids) == {c \in Chains(max, ids) : Len(c) <= max}

\* A right-click: the chain from the target to the document, and the position
\* of the component's root element in it.  `below` are the elements inside
\* the component, `above` those the component is mounted in.
Click(below, above) ==
    [path |-> below \o <<Plain>> \o above \o <<Document>>, root |-> Len(below) + 1]

Clicks(ids) ==
    UNION {{Click(below, above) : above \in BoundedChains(MaxDepth - Len(below), ids)} :
            below \in BoundedChains(MaxDepth, ids)}

\* IsSwitchBtn without the test of dataset.blog
IsSwitchBtnAnyButton(node) ==
    /\ node.kind = "element"
    /\ node.switchBtn

\* node.classList && node.classList.contains('switch-btn')
\*   && node.dataset && node.dataset.blog
IsSwitchBtn(node) ==
    /\ node.kind = "element"
    /\ node.switchBtn
    /\ node.blog # Null

\* The while loop of the handler, from the k-th node of the chain on.
\* `visited` is the number of nodes the loop examined.
RECURSIVE Walk(_, _)
Walk(path, k) ==
    IF k > Len(path) THEN [found |-> FALSE, blog |-> Null, visited |-> Len(path)]
    ELSE IF IsSwitchBtn(path[k]) THEN [found |-> TRUE, blog |-> path[k].blog, visited |-> k]
    ELSE Walk(path, k + 1)

(***************************************************************************)
(* The three binders.  Each is the effect of one invocation on the         *)
(* variables it writes.                                                    *)
(***************************************************************************)
\* AttachHandler without the off('contextmenu')
AttachHandlerNoOff(hs, g) == Append(hs, g)

\* this.$().off('contextmenu').on('contextmenu', handler)
AttachHandler(hs, g) == Append(<<>>, g)

\* A closure is in use while its handler is attached or its menu is open;
\* the others can be neither written nor read any more and are dropped.
InUse(hs, p) == Range(hs) \cup (IF p = NoPopup THEN {} ELSE {p.menu})

\* A name for a new closure: the least one no closure in use has.
FreshClosure(used) ==
    CHOOSE g \in 1..(Cardinality(used) + 1) :
        g \notin used /\ \A h \in 1..(g - 1) : h \in used

\* Every invocation creates a fresh `selectedBlog` (null), a fresh menu whose
\* items read it and a fresh handler that writes it.
_setupContextMenu ==
    LET g == FreshClosure(DOMAIN selectedBlog)
        hs == AttachHandler(handlers, g)
    IN  /\ handlers' = hs
        /\ selectedBlog' = [c \in InUse(hs, popup) |->
                                IF c = g THEN Null ELSE selectedBlog[c]]

\* `idx` is the index field of the blogs at the time of the invocation.
_setupQuickSwitch(idx) ==
    quickSwitchItems' = BlogMenuItems(SortedBlogsOf(blogs, idx))

_setupMenuItem ==
    injected' = injected \cup {"toggle-quick-switcher"}

didRender ==
    /\ _setupContextMenu
    /\ _setupQuickSwitch(index)
    /\ _setupMenuItem
    /\ sent' = <<>>
    /\ UNCHANGED <<blogs, index, isMinimized, popup, record, persisted, ops>>

(***************************************************************************)
(* The contextmenu event on the root element.  Every attached handler runs *)
(* (stopPropagation does not stop the handlers of the same element).       *)
(***************************************************************************)
HandlerResult(click) == Walk(click.path, 1)

contextmenu(click) ==
    LET res == HandlerResult(click)
    IN  /\ popup = NoPopup
        /\ IF res.found /\ handlers # <<>>
           THEN /\ selectedBlog' = [g \in DOMAIN selectedBlog |->
                        IF g \in Range(handlers) THEN res.blog ELSE selectedBlog[g]]
                /\ popup' = [menu |-> handlers[1], button |-> res.blog,
                              count |-> Len(handlers)]
           ELSE UNCHANGED <<selectedBlog, popup>>
        /\ sent' = <<>>
        /\ UNCHANGED <<blogs, index, isMinimized, handlers, quickSwitchItems,
                       injected, record, persisted, ops>>

(***************************************************************************)
(* The store operations.  A call starts an operation at findRecord; the    *)
(* promise callbacks run later, as steps of their own.  A promise that is  *)
(* rejected or never settles leaves its operation where it is.             *)
(***************************************************************************)
NoSnapshot == [iconColor |-> Null, isDeleted |-> FALSE]

Notification(name, arg) == [name |-> name, arg |-> arg]

\* pc: "findRecord" while the promise of findRecord is pending, "saving" while
\* the promise of save is pending, "saved" once it is fulfilled and its
\* callback is still to run.  snapshot: what the pending save writes.
NewOp(kind, id) ==
    [kind |-> kind, id |-> id, pc |-> "findRecord", snapshot |-> NoSnapshot]

\* The operations in flight form a bag: two calls with the same argument
\* that have come equally far are told apart by nothing.
Started(os, o) == os (+) SetToBag({o})

\* An operation with nothing left to run is gone.
Finished(os, o) == os (-) SetToBag({o})

Moved(os, o, next) == Started(Finished(os, o), next)

\* store.findRecord('blog', id) resolves with the record, or with nothing
\* when the store holds no such blog.
FindResult(id) ==
    IF id \in DOMAIN persisted /\ ~persisted[id].isDeleted THEN id ELSE Null

\* The effect of a successful save on the persisted blog.
SaveWrites(p, id, snapshot) == [p EXCEPT ![id] = snapshot]

\* changeBlogColor refusing a blog another operation is working on
changeBlogColorLocked(id) ==
    /\ \A o \in BagToSet(ops) : o.id # id
    /\ IF id # Null
       THEN ops' = Started(ops, NewOp("changeBlogColor", id))
       ELSE UNCHANGED ops

changeBlogColor(id) ==
    IF id # Null
    THEN ops' = Started(ops, NewOp("changeBlogColor", id))
    ELSE UNCHANGED ops

removeBlog(id) ==
    IF id # Null
    THEN ops' = Started(ops, NewOp("removeBlog", id))
    ELSE UNCHANGED ops

editBlog(id) ==
    IF id # Null
    THEN ops' = Started(ops, NewOp("editBlog", id))
    ELSE UNCHANGED ops

\* .then((result) => { if (result) { result.randomIconColor(); result.save(); } })
changeBlogColorFound(o, result, color) ==
    IF result # Null
    THEN /\ record' = [record EXCEPT ![result].iconColor = color]
         /\ ops' = Moved(ops, o, [o EXCEPT !.pc = "saving", !.snapshot = record'[result]])
         /\ sent' = <<>>
    ELSE /\ ops' = Finished(ops, o)
         /\ sent' = <<>>
         /\ UNCHANGED record

\* .then((result) => { if (result) { result.deleteRecord();
\*                                   result.save().then(...); } })
removeBlogFound(o, result) ==
    IF result # Null
    THEN /\ record' = [record EXCEPT ![result].isDeleted = TRUE]
         /\ ops' = Moved(ops, o, [o EXCEPT !.pc = "saving", !.snapshot = record'[result]])
         /\ sent' = <<>>
    ELSE /\ ops' = Finished(ops, o)
         /\ sent' = <<>>
         /\ UNCHANGED record

\* editBlogFound without the test of result
editBlogFoundUnchecked(o, result) ==
    /\ sent' = <<Notification("showEditBlog", result)>>
    /\ ops' = Finished(ops, o)
    /\ UNCHANGED record

\* .then((result) => { if (result) { this.sendAction('showEditBlog', result); } })
editBlogFound(o, result) ==
    IF result # Null
    THEN /\ sent' = <<Notification("showEditBlog", result)>>
         /\ ops' = Finished(ops, o)
         /\ UNCHANGED record
    ELSE /\ ops' = Finished(ops, o)
         /\ sent' = <<>>
         /\ UNCHANGED record

\* The promise of findRecord of operation o is fulfilled and its callback
\* runs.
findRecordResolved(o, color) ==
    /\ BagIn(o, ops)
    /\ o.pc = "findRecord"
    /\ LET result == FindResult(o.id)
       IN  CASE o.kind = "changeBlogColor" -> changeBlogColorFound(o, result, color)
             [] o.kind = "removeBlog" -> removeBlogFound(o, result)
             [] o.kind = "editBlog" -> editBlogFound(o, result)
    /\ UNCHANGED <<blogs, index, isMinimized, handlers, selectedBlog, popup,
                   quickSwitchItems, injected, persisted>>

\* AfterSave with the callback of removeBlog attached for failure as well
AfterSaveEitherWay(os, o, ok) ==
    IF o.kind = "removeBlog"
    THEN Moved(os, o, [o EXCEPT !.pc = "saved"])
    ELSE Finished(os, o)

\* What follows the settling of the save of operation o: removeBlog has
\* attached a callback for success, changeBlogColor nothing; nobody has
\* attached anything for failure.
AfterSave(os, o, ok) ==
    IF ok /\ o.kind = "removeBlog"
    THEN Moved(os, o, [o EXCEPT !.pc = "saved"])
    ELSE Finished(os, o)

\* The save of operation o settles: fulfilled (ok) or rejected.
saveSettled(o, ok) ==
    /\ BagIn(o, ops)
    /\ o.pc = "saving"
    /\ persisted' = IF ok THEN SaveWrites(persisted, o.id, o.snapshot) ELSE persisted
    /\ ops' = AfterSave(ops, o, ok)
    /\ sent' = <<>>
    /\ UNCHANGED <<blogs, index, isMinimized, handlers, selectedBlog, popup,
                   quickSwitchItems, injected, record>>

\* result.save().then(() => this.sendAction('blogRemoved'))
blogRemoved(o) ==
    /\ BagIn(o, ops)
    /\ o.pc = "saved"
    /\ sent' = <<Notification("blogRemoved", Null)>>
    /\ ops' = Finished(ops, o)
    /\ UNCHANGED <<blogs, index, isMinimized, handlers, selectedBlog, popup,
                   quickSwitchItems, injected, record, persisted>>

\* A direct call of one of the three methods.
Methods == {"changeBlogColor", "removeBlog", "editBlog"}

Invoke(method, id) ==
    CASE method = "changeBlogColor" -> changeBlogColor(id)
      [] method = "removeBlog" -> removeBlog(id)
      [] method = "editBlog" -> editBlog(id)

call(method, id) ==
    /\ Invoke(method, id)
    /\ sent' = <<>>
    /\ UNCHANGED <<blogs, index, isMinimized, handlers, selectedBlog, popup,
                   quickSwitchItems, injected, record, persisted>>

(***************************************************************************)
(* The native popup: an item of the open menu is chosen, or the menu is    *)
(* closed without a choice.  The items read the `selectedBlog` of the      *)
(* closure the menu was built in.                                          *)
(***************************************************************************)
MenuLabels == {"Edit Blog", "Remove Blog", "New Icon Color"}

MethodOf(label) ==
    CASE label = "Edit Blog" -> "editBlog"
      [] label = "Remove Blog" -> "removeBlog"
      [] label = "New Icon Color" -> "changeBlogColor"

\* SelectedOf with one slot for all menus, the one the attached handler writes
SelectedOfAttached(g) == selectedBlog[handlers[1]]

\* The id the items of the menu built in closure g read.
SelectedOf(g) == selectedBlog[g]

menuClick(label) ==
    /\ popup # NoPopup
    /\ IF SelectedOf(popup.menu) # Null
       THEN Invoke(MethodOf(label), SelectedOf(popup.menu))
       ELSE UNCHANGED ops
    /\ popup' = NoPopup
    /\ selectedBlog' = [c \in InUse(handlers, NoPopup) |-> selectedBlog[c]]
    /\ sent' = <<>>
    /\ UNCHANGED <<blogs, index, isMinimized, handlers,
                   quickSwitchItems, injected, record, persisted>>

menuClosed ==
    /\ popup # NoPopup
    /\ popup' = NoPopup
    /\ selectedBlog' = [c \in InUse(handlers, NoPopup) |-> selectedBlog[c]]
    /\ sent' = <<>>
    /\ UNCHANGED <<blogs, index, isMinimized, handlers,
                   quickSwitchItems, injected, record, persisted, ops>>

(***************************************************************************)
(* actions                                                                 *)
(***************************************************************************)
switchToBlog(blog) ==
    /\ sent' = <<Notification("switchToBlog", blog)>>
    /\ UNCHANGED <<blogs, index, isMinimized, handlers, selectedBlog, popup,
                   quickSwitchItems, injected, record, persisted, ops>>

showAddBlog ==
    /\ sent' = <<Notification("showAddBlog", Null)>>
    /\ UNCHANGED <<blogs, index, isMinimized, handlers, selectedBlog, popup,
                   quickSwitchItems, injected, record, persisted, ops>>

showPreferences ==
    /\ sent' = <<Notification("showPreferences", Null)>>
    /\ UNCHANGED <<blogs, index, isMinimized, handlers, selectedBlog, popup,
                   quickSwitchItems, injected, record, persisted, ops>>

\* ToggleProperty that only ever minimizes
ToggleOn(value) == TRUE

\* this.toggleProperty('isMinimized')
ToggleProperty(value) == ~value

toggle ==
    /\ isMinimized' = ToggleProperty(isMinimized)
    /\ sent' = <<>>
    /\ UNCHANGED <<blogs, index, handlers, selectedBlog, popup,
                   quickSwitchItems, injected, record, persisted, ops>>

\* SetIndices counting from one
SetIndicesFromOne(idx, seq) ==
    [b \in DOMAIN idx |->
        IF b \in Range(seq)
        THEN CHOOSE k \in 1..Len(seq) : seq[k] = b /\ \A j \in (k + 1)..Len(seq) : seq[j] # b
        ELSE idx[b]]

\* reorderedBogs.forEach((blog, i) => { blog.set('index', i); })
SetIndices(idx, seq) ==
    [b \in DOMAIN idx |->
        IF b \in Range(seq)
        THEN (CHOOSE k \in 1..Len(seq) :
                 seq[k] = b /\ \A j \in (k + 1)..Len(seq) : seq[j] # b) - 1
        ELSE idx[b]]

\* reorderItems running the binders on the order as it was before
reorderItemsStale(reorderedBogs) ==
    /\ index' = SetIndices(index, reorderedBogs)
    /\ _setupContextMenu
    /\ _setupQuickSwitch(index)
    /\ _setupMenuItem
    /\ sent' = <<>>
    /\ UNCHANGED <<blogs, isMinimized, popup, record, persisted, ops>>

reorderItems(reorderedBogs) ==
    /\ index' = SetIndices(index, reorderedBogs)
    /\ _setupContextMenu
    /\ _setupQuickSwitch(index')
    /\ _setupMenuItem
    /\ sent' = <<>>
    /\ UNCHANGED <<blogs, isMinimized, popup, record, persisted, ops>>

(***************************************************************************)
(* The callbacks the window-menu service holds.                            *)
(***************************************************************************)
\* click: () => this.send('switchToBlog', blog) of the k-th registered entry
quickSwitchClick(k) ==
    /\ k \in 2..Len(quickSwitchItems)
    /\ switchToBlog(quickSwitchItems[k].click)

\* () => this.send('showPreferences'), registered with the entries
preferencesClick ==
    /\ quickSwitchItems # <<>>
    /\ showPreferences

\* click: () => this.send('toggle') of the injected menu item
toggleClick ==
    /\ "toggle-quick-switcher" \in injected
    /\ toggle

(***************************************************************************)
(* Specifications                                                          *)
(***************************************************************************)
Collection(n) == [i \in 1..n |-> i]

\* The records as the store holds them at first: no icon colour drawn yet,
\* not deleted.
FreshRecords(n) == [b \in BlogIds(n) |-> [iconColor |-> Null, isDeleted |-> FALSE]]

\* The state after construction, before the first render, for a collection
\* of n blogs whose index fields are idx.
InitWith(n, idx, minimized) ==
    /\ blogs = Collection(n)
    /\ index = idx
    /\ isMinimized = minimized
    /\ handlers = <<>>
    /\ selectedBlog = <<>>
    /\ popup = NoPopup
    /\ quickSwitchItems = <<>>
    /\ injected = {}
    /\ record = FreshRecords(n)
    /\ persisted = FreshRecords(n)
    /\ ops = EmptyBag
    /\ sent = <<>>

\* Index fields in store order, in reverse order, or all equal.
SomeIndices(n) ==
    {[b \in BlogIds(n) |-> b - 1], [b \in BlogIds(n) |-> n - b], [b \in BlogIds(n) |-> 0]}

\* Every sequence that lists each element of S once.
RECURSIVE Arrangements(_)
Arrangements(S) ==
    IF S = {} THEN {<<>>}
    ELSE UNION {{<<x>> \o p : p \in Arrangements(S \ {x})} : x \in S}

Orderings(s) == Arrangements(Range(s))

\* ember-sortable after a drag of the first item to the last place
Rotated(s) == [i \in 1..Len(s) |-> IF i = Len(s) THEN s[1] ELSE s[i + 1]]

(* Spec: rendering, the context menu and reordering.  The promises of the  *)
(* store stay pending; SpecStore settles them.                             *)
Init ==
    \E idx \in SomeIndices(NumBlogs) : InitWith(NumBlogs, idx, FALSE)

Next ==
    \/ didRender
    \/ \E click \in Clicks(Range(blogs)) : contextmenu(click)
    \/ \E label \in MenuLabels : BagCardinality(ops) < MaxMenuOps /\ menuClick(label)
    \/ menuClosed
    \/ \E seq \in Orderings(blogs) : reorderItems(seq)

Spec == Init /\ [][Next]_vars

(* SpecStore: the three store operations, called in any order and settled  *)
(* in any order.                                                           *)
InitStore ==
    InitWith(NumStoreBlogs, [b \in BlogIds(NumStoreBlogs) |-> b - 1], FALSE)

NextStore ==
    \/ \E method \in Methods, id \in Range(blogs) \cup {Null} :
          BagCardinality(ops) < MaxOps /\ call(method, id)
    \/ \E o \in BagToSet(ops), color \in Colors : findRecordResolved(o, color)
    \/ \E o \in BagToSet(ops), ok \in BOOLEAN : saveSettled(o, ok)
    \/ \E o \in BagToSet(ops) : blogRemoved(o)

SpecStore == InitStore /\ [][NextStore]_vars

(* SpecReorder: reorderItems with every ordering of the collection, from   *)
(* any even index fields, equal ones and gaps included: an odd index is    *)
(* one reorderItems has set.                                               *)
InitReorder ==
    \E idx \in [BlogIds(NumSortBlogs) -> {2 * j : j \in 0..NumSortBlogs}] :
        InitWith(NumSortBlogs, idx, FALSE)

NextReorder ==
    \/ didRender
    \/ \E seq \in Orderings(blogs) : reorderItems(seq)

SpecReorder == InitReorder /\ [][NextReorder]_vars

(* SpecMenu: collections of every size up to MaxMenuBlogs, the window menu *)
(* and the actions of the template.                                        *)
InitMenu ==
    \E n \in 0..MaxMenuBlogs :
        \E idx \in SomeIndices(n) : InitWith(n, idx, FALSE)

NextMenu ==
    \/ didRender
    \/ blogs # <<>> /\ reorderItems(Rotated(sortedBlogs))
    \/ \E k \in DOMAIN quickSwitchItems : quickSwitchClick(k)
    \/ preferencesClick
    \/ toggleClick
    \/ \E blog \in Range(blogs) : switchToBlog(blog)
    \/ showAddBlog
    \/ showPreferences
    \/ toggle

SpecMenu == InitMenu /\ [][NextMenu]_vars

(***************************************************************************)
(* Properties                                                              *)
(***************************************************************************)
\* The operations in flight (before the step) of which the step ran one.
Ran(o) == CopiesIn(o, ops') < CopiesIn(o, ops)

\* The operations in flight after the step that the step brought there.
Arrived(o) == CopiesIn(o, ops') > CopiesIn(o, ops)

Sends(name) == sent' # <<>> /\ sent'[1].name = name

\* C1: a removeBlog on an existing blog marks the record deleted, then issues
\* the save, and only after the save has succeeded sends blogRemoved, once:
\* the save that is pending writes a deleted record; an operation awaits its
\* blogRemoved callback only after its own save has been written; and a step
\* sends blogRemoved exactly when it runs that callback, which ends the
\* operation.
RemoveOrder ==
    [][/\ \A o \in BagToSet(ops') :
            (o.kind = "removeBlog" /\ o.pc \in {"saving", "saved"})
                => (o.snapshot.isDeleted /\ record'[o.id].isDeleted)
       /\ \A o \in BagToSet(ops') :
            (o.pc = "saved" /\ Arrived(o))
                => /\ o.kind = "removeBlog"
                   /\ Ran([o EXCEPT !.pc = "saving"])
                   /\ persisted'[o.id] = o.snapshot
                   /\ persisted'[o.id].isDeleted
                   /\ sent' = <<>>
       /\ Sends("blogRemoved")
            => /\ Len(sent') = 1
               /\ \E o \in BagToSet(ops) :
                    /\ o.kind = "removeBlog"
                    /\ o.pc = "saved"
                    /\ ops' = ops (-) SetToBag({o})
       /\ \A o \in BagToSet(ops) :
            (o.pc = "saved" /\ Ran(o)) => Sends("blogRemoved")
       /\ \A o \in BagToSet(ops) :
            (o.kind = "removeBlog" /\ o.pc = "saving" /\ Ran(o)
                /\ persisted'[o.id] # o.snapshot)
                => (~Sends("blogRemoved") /\ \A q \in BagToSet(ops') : ~Arrived(q))
      ]_vars

\* A removal has just been notified: its blog is deleted in the store.
RemoveOrderWitness ==
    /\ sent = <<Notification("blogRemoved", Null)>>
    /\ persisted[1].isDeleted
    /\ record[1].isDeleted

\* C5: when findRecord resolves with nothing, the callback of
\* changeBlogColor, removeBlog or editBlog changes no record, issues no
\* save and sends nothing: the operation just ends.
FetchMissNoOp ==
    [][\A o \in BagToSet(ops) :
          (o.pc = "findRecord" /\ FindResult(o.id) = Null /\ Ran(o))
              => /\ record' = record
                 /\ persisted' = persisted
                 /\ sent' = <<>>
                 /\ ops' = ops (-) SetToBag({o})
      ]_vars

\* Two operations of different kinds are waiting for a blog the store no
\* longer holds.
FetchMissWitness ==
    \E o, q \in BagToSet(ops) :
        /\ o.kind = "removeBlog" /\ q.kind = "editBlog"
        /\ o.pc = "findRecord" /\ q.pc = "findRecord"
        /\ FindResult(o.id) = Null /\ FindResult(q.id) = Null

MenuActsOnClickedBlog ==
    [][/\ popup' # NoPopup
            => /\ popup'.button # Null
               /\ popup'.menu \in DOMAIN selectedBlog'
               /\ selectedBlog'[popup'.menu] = popup'.button
       /\ \A label \in MenuLabels :
            menuClick(label) => ops' = ops (+) SetToBag({NewOp(MethodOf(label), popup.button)})
       /\ (popup # NoPopup /\ ops' # ops)
            => \E method \in Methods : ops' = ops (+) SetToBag({NewOp(method, popup.button)})
      ]_vars

\* A menu opened on blog 2 is still open after a later _setupContextMenu has
\* replaced the handler, and the new closure holds nothing.
MenuActsOnClickedBlogWitness ==
    /\ popup # NoPopup
    /\ popup.button = 2
    /\ handlers # <<>>
    /\ popup.menu \notin Range(handlers)
    /\ selectedBlog[handlers[1]] = Null

\* The test of the handler, restated: a switch button carrying a blog id.
CarriesBlog(node) == node.kind = "element" /\ node.switchBtn /\ node.blog # Null

NoButtonUpToRoot(click) == \A k \in 1..click.root : ~CarriesBlog(click.path[k])

NoButtonAnywhere(click) == \A k \in 1..Len(click.path) : ~CarriesBlog(click.path[k])

\* A contextmenu event of this click would open a popup or write selectedBlog.
Reacts(click) == ENABLED (contextmenu(click) /\ <<popup, selectedBlog>>' # <<popup, selectedBlog>>)

\* C7 as claimed: with no switch button carrying a blog id from the target
\* up to the component's root, the right-click opens no popup and leaves
\* selectedBlog as it is, and the walk ends at the root.
NoMatchUpToRoot ==
    (handlers # <<>> /\ popup = NoPopup)
        => \A click \in Clicks(Range(blogs)) :
              NoButtonUpToRoot(click)
                  => /\ ~Reacts(click)
                     /\ ~HandlerResult(click).found
                     /\ HandlerResult(click).visited = click.root

\* C7, amended: with no switch button carrying a blog id among the target
\* and all its ancestors, those of the component's root included, the
\* right-click opens no popup and leaves selectedBlog as it is; the walk
\* passes the root and ends after the document, with no match.
NoMatchAnywhere ==
    (handlers # <<>> /\ popup = NoPopup)
        => \A click \in Clicks(Range(blogs)) :
              NoButtonAnywhere(click)
                  => /\ ENABLED contextmenu(click)
                     /\ ~Reacts(click)
                     /\ ~HandlerResult(click).found
                     /\ HandlerResult(click).visited = Len(click.path)
                     /\ HandlerResult(click).visited > click.root

\* The attached handler's closure holds a blog from an earlier right-click
\* and no popup is open: a right-click off the buttons finds this state and
\* leaves it.
NoMatchWitness ==
    /\ handlers # <<>>
    /\ popup = NoPopup
    /\ selectedBlog[handlers[1]] = 2

\* C8: once _setupContextMenu has run, however often, exactly one
\* contextmenu handler is attached, and a right-click on a switch button
\* opens exactly one popup.
OneHandler ==
    /\ "toggle-quick-switcher" \in injected => Len(handlers) = 1
    /\ popup # NoPopup => popup.count = 1

\* A popup opened by the handler of closure 2, which exists only once
\* _setupContextMenu has run while closure 1 was in use.
OneHandlerWitness ==
    /\ popup # NoPopup
    /\ popup.menu = 2
    /\ popup.count = 1
    /\ handlers = <<2>>

\* C9: toggle flips isMinimized and changes nothing else, and toggling what
\* it has set gives the value it found.
ToggleFlips ==
    [][(toggle \/ toggleClick)
          => /\ isMinimized' = ~isMinimized
             /\ isMinimized' \in BOOLEAN
             /\ ToggleProperty(isMinimized') = isMinimized
             /\ sent' = <<>>
             /\ UNCHANGED <<blogs, index, handlers, selectedBlog, popup, quickSwitchItems,
                            injected, record, persisted, ops>>
      ]_vars

\* The switcher, constructed maximized, is minimized: toggle has run, through
\* the injected menu item.
ToggleFlipsWitness ==
    /\ isMinimized
    /\ "toggle-quick-switcher" \in injected

ReorderSetsOrder ==
    [][\A seq \in Orderings(blogs) :
          reorderItems(seq)
              => /\ \A k \in 1..Len(seq) : index'[seq[k]] = k - 1
                 /\ SortedBlogsOf(blogs', index') = seq
      ]_vars

\* The order B3, B1, B2 of a collection stored as B1, B2, B3.
ReorderSetsOrderWitness ==
    /\ "toggle-quick-switcher" \in injected
    /\ index[3] = 0 /\ index[1] = 1 /\ index[2] = 2
    /\ sortedBlogs = <<3, 1, 2>>

\* C4: reorderItems runs the three binders after it has set the indices:
\* when it returns, the registered list holds the first 8 blogs of the new
\* order, accelerator k switching to the blog now at place k, a fresh
\* contextmenu handler is attached and the toggle item is injected.
ReorderRebinds ==
    [][(blogs # <<>> /\ reorderItems(Rotated(sortedBlogs)))
          => LET new == Rotated(sortedBlogs)
                 m == IF Len(new) < 8 THEN Len(new) ELSE 8
             IN  /\ Len(quickSwitchItems') = m + 1
                 /\ \A k \in 1..m :
                      /\ quickSwitchItems'[k + 1].accelerator = <<"CmdOrCtrl+", k>>
                      /\ quickSwitchItems'[k + 1].click = new[k]
                      /\ quickSwitchItems'[k + 1].label = BlogName(new[k])
                 /\ Len(handlers') = 1
                 /\ selectedBlog'[handlers'[1]] = Null
                 /\ "toggle-quick-switcher" \in injected'
      ]_vars

\* Nine blogs after the first was dragged to the end: accelerator 1 now
\* switches to blog 2 and blog 1, ninth, has no entry.
ReorderRebindsWitness ==
    /\ Len(blogs) = 9
    /\ index[2] = 0
    /\ index[1] = 8
    /\ quickSwitchItems[2].click = 2
    /\ \A k \in 2..Len(quickSwitchItems) : quickSwitchItems[k].click # 1

====
